---------------------------- MODULE Spec2Model ----------------------------
(***************************************************************************)
(* The RWKV-5.1 linear-attention kernel of gptcore:                        *)
(*   rwkv_inner          src/model/experimental/rwkv_inner.py              *)
(*   rwkv5_1_recurrent   src/model/experimental/rwkv5_1.py                 *)
(*   the grouped-query head expansion of RWKV5_1_AttentionSubLayer.forward *)
(*                                                                         *)
(* Tensors are dense row-major arrays [shape, data].  The kernel is        *)
(* followed statement by statement; every torch operation it uses is an    *)
(* operator of the tensor library below (broadcasting, matmul, view, ...), *)
(* with the shape rules that make the operation raise.                     *)
(*                                                                         *)
(* Arithmetic is exact.  A decay is a number s * 2^a * 5^b, kept as the    *)
(* triple <<s, a, b>> (s in {-1, 0, 1}); its logarithm is the exponent     *)
(* vector <<a, b>> (a*ln 2 + b*ln 5), so log turns products into sums and  *)
(* exp turns them back.  Every other value is an integer divided by powers *)
(* of 2 and 5; it is carried as its residues modulo the primes of Primes   *)
(* (none of them 2 or 5), which add and multiply exactly and never         *)
(* overflow.  Two values that differ in a residue differ as numbers; two   *)
(* values whose numerators over a common denominator are below the         *)
(* product of the primes are equal when all their residues are.            *)
(***************************************************************************)
EXTENDS Integers, Sequences, FiniteSets, TLC

-----------------------------------------------------------------------------
(* Exact numbers *)

Primes == <<46337, 46327>>

NP == Len(Primes)

NInt(i) == [j \in 1..NP |-> i % Primes[j]]

NZero == NInt(0)

NAdd(a, b) == [j \in 1..NP |-> (a[j] + b[j]) % Primes[j]]

NMul(a, b) == [j \in 1..NP |-> (a[j] * b[j]) % Primes[j]]

NNeg(a) == [j \in 1..NP |-> (Primes[j] - a[j]) % Primes[j]]

\* 1/n as a number, for n prime to every prime of Primes
NInv(n) == [j \in 1..NP |-> CHOOSE x \in 1..(Primes[j] - 1) : (n * x) % Primes[j] = 1]

NHalf == NInv(2)

NFifth == NInv(5)

\* base^e for e >= 0
NPow(base, e) ==
  LET p[i \in 0..e] == IF i = 0 THEN NInt(1) ELSE NMul(p[i - 1], base)
  IN p[e]

\* 2^a * 5^b as a number, for any integers a, b
NPow25(a, b) ==
  NMul(IF a >= 0 THEN NPow(NInt(2), a) ELSE NPow(NHalf, 0 - a),
       IF b >= 0 THEN NPow(NInt(5), b) ELSE NPow(NFifth, 0 - b))

\* integer powers, for comparing decays
IPow(base, e) ==
  LET p[i \in 0..e] == IF i = 0 THEN 1 ELSE p[i - 1] * base
  IN p[e]

\* 2^a * 5^b >= 1
GeOne25(a, b) ==
  IF a >= 0 /\ b >= 0 THEN TRUE
  ELSE IF a <= 0 /\ b <= 0 THEN FALSE
  ELSE IF a > 0 THEN IPow(2, a) >= IPow(5, 0 - b)
  ELSE IPow(5, b) >= IPow(2, 0 - a)

\* a decay <<s, a, b>> is the number s * 2^a * 5^b
DLess(x, y) ==
  IF x[1] # y[1] THEN x[1] < y[1]
  ELSE IF x[1] = 0 THEN FALSE
  ELSE IF x[1] = 1 THEN ~GeOne25(x[2] - y[2], x[3] - y[3])
  ELSE ~GeOne25(y[2] - x[2], y[3] - x[3])

\* the value of a decay
DNum(x) ==
  IF x[1] = 0 THEN NZero
  ELSE IF x[1] = 1 THEN NPow25(x[2], x[3])
  ELSE NNeg(NPow25(x[2], x[3]))

\* torch.log of a positive decay; of a decay <= 0 it is nan or -inf
DLog(x) == IF x[1] = 1 THEN <<x[2], x[3]>> ELSE "nan"

LAdd(x, y) == <<x[1] + y[1], x[2] + y[2]>>

LSub(x, y) == <<x[1] - y[1], x[2] - y[2]>>

LZero == <<0, 0>>

\* torch.exp of a logarithm
LExp(x) == NPow25(x[1], x[2])

-----------------------------------------------------------------------------
(* Tensors: [shape |-> <<d1, ..., dn>>, data |-> row-major elements] *)

SumN(n, F(_)) ==
  LET acc[i \in 0..n] == IF i = 0 THEN 0 ELSE acc[i - 1] + F(i)
  IN acc[n]

NSumN(n, F(_)) ==
  LET acc[i \in 0..n] == IF i = 0 THEN NZero ELSE NAdd(acc[i - 1], F(i))
  IN acc[n]

Prod(s) ==
  LET p[i \in 0..Len(s)] == IF i = 0 THEN 1 ELSE p[i - 1] * s[i]
  IN p[Len(s)]

\* number of elements between two consecutive indices of dimension d
Stride(s, d) ==
  LET p[i \in d..Len(s)] == IF i = Len(s) THEN 1 ELSE p[i + 1] * s[i + 1]
  IN p[d]

\* index along dimension d of the element at row-major position f (from 0)
Coord(f, s, d) == (f \div Stride(s, d)) % s[d]

Max(a, b) == IF a >= b THEN a ELSE b

Min(a, b) == IF a <= b THEN a ELSE b

\* size of dimension d of shape s seen as a shape of rank n (aligned right)
DimAt(s, d, n) == IF d > n - Len(s) THEN s[d - (n - Len(s))] ELSE 1

\* torch broadcasting of two shapes
CanBroadcast(s1, s2) ==
  LET n == Max(Len(s1), Len(s2))
  IN \A d \in 1..n :
       \/ DimAt(s1, d, n) = DimAt(s2, d, n)
       \/ DimAt(s1, d, n) = 1
       \/ DimAt(s2, d, n) = 1

BShape(s1, s2) ==
  LET n == Max(Len(s1), Len(s2))
  IN [d \in 1..n |-> IF DimAt(s1, d, n) = 1 THEN DimAt(s2, d, n) ELSE DimAt(s1, d, n)]

\* position in an operand of shape s of the element broadcast to position f
\* of the result of shape os
BIdx(f, os, s) ==
  SumN(Len(s), LAMBDA d : IF s[d] = 1 THEN 0
                          ELSE Coord(f, os, d + Len(os) - Len(s)) * Stride(s, d))

Tensor(s, E(_)) == [shape |-> s, data |-> [i \in 1..Prod(s) |-> E(i - 1)]]

\* elementwise binary operation with broadcasting (a * b, a + b, a - b)
Ew(Op(_, _), A, B) ==
  LET os == BShape(A.shape, B.shape)
  IN Tensor(os, LAMBDA f : Op(A.data[BIdx(f, os, A.shape) + 1],
                              B.data[BIdx(f, os, B.shape) + 1]))

\* elementwise unary operation (log, exp, clamp)
Map(Op(_), A) == [shape |-> A.shape, data |-> [i \in 1..Len(A.data) |-> Op(A.data[i])]]

Batch(s) == SubSeq(s, 1, Len(s) - 2)

\* torch.matmul of tensors of rank >= 2: the batch dimensions broadcast and
\* the inner dimensions must agree
CanMatmul(s1, s2) ==
  /\ Len(s1) >= 2
  /\ Len(s2) >= 2
  /\ s1[Len(s1)] = s2[Len(s2) - 1]
  /\ CanBroadcast(Batch(s1), Batch(s2))

Matmul(A, B) ==
  LET n == A.shape[Len(A.shape) - 1]
      m == A.shape[Len(A.shape)]
      p == B.shape[Len(B.shape)]
      bs == BShape(Batch(A.shape), Batch(B.shape))
  IN Tensor(bs \o <<n, p>>,
       LAMBDA f :
         LET fb == f \div (n * p)
             i == (f \div p) % n
             l == f % p
             ia == BIdx(fb, bs, Batch(A.shape)) * n * m + i * m
             ib == BIdx(fb, bs, Batch(B.shape)) * m * p + l
         IN NSumN(m, LAMBDA j : NMul(A.data[ia + (j - 1) + 1],
                                     B.data[ib + (j - 1) * p + 1])))

\* Tensor.view(shape): the same elements under another shape; one dimension
\* may be -1 and is then inferred
ViewShape(n, s) ==
  LET unknown == {d \in 1..Len(s) : s[d] = 0 - 1}
      known == Prod([d \in 1..Len(s) |-> IF d \in unknown THEN 1 ELSE s[d]])
  IN [d \in 1..Len(s) |-> IF d \in unknown THEN n \div known ELSE s[d]]

CanView(n, s) ==
  LET unknown == {d \in 1..Len(s) : s[d] = 0 - 1}
      known == Prod([d \in 1..Len(s) |-> IF d \in unknown THEN 1 ELSE s[d]])
  IN /\ \A d \in 1..Len(s) : s[d] >= 0 - 1
     /\ Cardinality(unknown) <= 1
     /\ IF unknown = {} THEN known = n
        ELSE known # 0 /\ n % known = 0

View(A, s) == [shape |-> ViewShape(Len(A.data), s), data |-> A.data]

\* Tensor.mT: the last two dimensions exchanged
MT(A) ==
  LET r == Len(A.shape)
      n == A.shape[r - 1]
      m == A.shape[r]
  IN Tensor(Batch(A.shape) \o <<m, n>>,
       LAMBDA f : A.data[(f \div (n * m)) * n * m + (f % n) * m + ((f \div n) % m) + 1])

\* A[..., lo:hi, ...] along dimension d (Python slice: the bounds are cut to
\* the size of the dimension)
SliceDim(A, d, lo, hi) ==
  LET l == Min(lo, A.shape[d])
      h == Max(l, Min(hi, A.shape[d]))
      os == [A.shape EXCEPT ![d] = h - l]
  IN Tensor(os,
       LAMBDA f : A.data[SumN(Len(os), LAMBDA e :
                    (Coord(f, os, e) + (IF e = d THEN l ELSE 0)) * Stride(A.shape, e)) + 1])

Without(s, d) == SubSeq(s, 1, d - 1) \o SubSeq(s, d + 1, Len(s))

\* element i (from 0) of A.unbind(dim = d)
Select(A, d, i) == [shape |-> Without(A.shape, d), data |-> SliceDim(A, d, i, i + 1).data]

\* torch.cat([A, B], dim = d)
Cat(A, B, d) ==
  LET os == [A.shape EXCEPT ![d] = A.shape[d] + B.shape[d]]
  IN Tensor(os,
       LAMBDA f :
         IF Coord(f, os, d) < A.shape[d]
         THEN A.data[SumN(Len(os), LAMBDA e : Coord(f, os, e) * Stride(A.shape, e)) + 1]
         ELSE B.data[SumN(Len(os), LAMBDA e :
                 (Coord(f, os, e) - (IF e = d THEN A.shape[d] ELSE 0)) * Stride(B.shape, e)) + 1])

\* torch.stack(list, dim = d - 1): a new dimension d indexes the list
Stack(list, d) ==
  LET s == list[1].shape
      os == SubSeq(s, 1, d - 1) \o <<Len(list)>> \o SubSeq(s, d, Len(s))
  IN Tensor(os,
       LAMBDA f :
         list[Coord(f, os, d) + 1].data[
           SumN(Len(s), LAMBDA e :
             Coord(f, os, IF e < d THEN e ELSE e + 1) * Stride(s, e)) + 1])

\* Tensor.cumsum(dim = d) with addition Add
Cumsum(Add(_, _), A, d) ==
  Tensor(A.shape,
    LAMBDA f :
      LET st == Stride(A.shape, d)
          acc[j \in 0..Coord(f, A.shape, d)] ==
            IF j = 0 THEN A.data[f - Coord(f, A.shape, d) * st + 1]
            ELSE Add(acc[j - 1], A.data[f - (Coord(f, A.shape, d) - j) * st + 1])
      IN acc[Coord(f, A.shape, d)])

\* Tensor.sum(dim = d, keepdim = True) with addition Add
SumKeep(Add(_, _), A, d) ==
  LET os == [A.shape EXCEPT ![d] = 1]
  IN Tensor(os,
       LAMBDA f :
         LET base == SumN(Len(os), LAMBDA e : Coord(f, os, e) * Stride(A.shape, e))
             st == Stride(A.shape, d)
             acc[j \in 1..A.shape[d]] ==
               IF j = 1 THEN A.data[base + 1]
               ELSE Add(acc[j - 1], A.data[base + (j - 1) * st + 1])
         IN acc[A.shape[d]])

\* Tensor.tril(k): the entries with column - row > k set to zero
Tril(A, k) ==
  LET r == Len(A.shape)
  IN Tensor(A.shape,
       LAMBDA f : IF Coord(f, A.shape, r) - Coord(f, A.shape, r - 1) > k
                  THEN NZero ELSE A.data[f + 1])

\* Tensor.diag_embed(): (..., n) becomes (..., n, n) with the vector on the diagonal
DiagEmbed(A) ==
  LET n == A.shape[Len(A.shape)]
  IN Tensor(A.shape \o <<n>>,
       LAMBDA f : IF (f \div n) % n = f % n THEN A.data[(f \div n) + 1] ELSE NZero)

\* torch.einsum('...k,...k->...', A, B): the product summed over the last dimension
DotLast(A, B) ==
  LET P == Ew(NMul, A, B)
      k == P.shape[Len(P.shape)]
  IN Tensor(SubSeq(P.shape, 1, Len(P.shape) - 1),
       LAMBDA f : NSumN(k, LAMBDA j : P.data[f * k + j]))

\* torch.zeros_like
ZerosLike(A, zero) == [shape |-> A.shape, data |-> [i \in 1..Len(A.data) |-> zero]]

\* A[..., lo:hi, ...] = X along dimension d, X of the shape of the slice
SliceAssign(A, d, lo, hi, X) ==
  Tensor(A.shape,
    LAMBDA f :
      IF Coord(f, A.shape, d) >= lo /\ Coord(f, A.shape, d) < hi
      THEN X.data[SumN(Len(A.shape), LAMBDA e :
              (Coord(f, A.shape, e) - (IF e = d THEN lo ELSE 0)) * Stride(X.shape, e)) + 1]
      ELSE A.data[f + 1])

\* Tensor.unsqueeze(d - 1): a dimension of size 1 inserted as dimension d
Unsqueeze(A, d) ==
  [shape |-> SubSeq(A.shape, 1, d - 1) \o <<1>> \o SubSeq(A.shape, d, Len(A.shape)),
   data |-> A.data]

-----------------------------------------------------------------------------
(* Python integer arithmetic *)

\* a // b, for b # 0 (rounds towards minus infinity)
PyFloorDiv(a, b) ==
  IF b > 0 THEN a \div b ELSE 0 - (((0 - b) - 1 + a) \div (0 - b))

\* a % b, for b # 0 (takes the sign of b)
PyMod(a, b) == a - b * PyFloorDiv(a, b)

-----------------------------------------------------------------------------
(* rwkv5_1_recurrent, the reference recurrence *)

\* decay * value
DMul(d, x) == NMul(DNum(d), x)

Rank(A) == Len(A.shape)

\* one iteration of the loop: st is [out |-> list of outputs, kv_state, states]
RecurrentStep(r_in, k_in, v_in, w_in, u, st, t) ==
  LET r == SliceDim(r_in, Rank(r_in) - 1, t, t + 1)
      k == SliceDim(k_in, Rank(k_in) - 1, t, t + 1)
      v == SliceDim(v_in, Rank(v_in) - 1, t, t + 1)
      w == SliceDim(w_in, Rank(w_in) - 1, t, t + 1)
      kv == Matmul(MT(k), v)
      o == Matmul(r, Ew(NAdd, st.kv_state, Ew(NMul, MT(u), kv)))
      kv_state == Ew(NAdd, Ew(DMul, MT(w), st.kv_state), kv)
  IN [out |-> Append(st.out, o),
      kv_state |-> kv_state,
      states |-> Append(st.states, kv_state)]

RECURSIVE CatFrom(_, _, _, _)
\* acc with list[i], list[i + 1], ... appended along dimension d
CatFrom(acc, list, i, d) ==
  IF i > Len(list) THEN acc ELSE CatFrom(Cat(acc, list[i], d), list, i + 1, d)

\* torch.cat(list, dim = d) of a non-empty list
CatList(list, d) == CatFrom(list[1], list, 2, d)

RECURSIVE RecurrentLoop(_, _, _, _, _, _, _)
\* the iterations t, t + 1, ... of the loop
RecurrentLoop(r_in, k_in, v_in, w_in, u, st, t) ==
  IF t >= r_in.shape[Rank(r_in) - 1] THEN st
  ELSE RecurrentLoop(r_in, k_in, v_in, w_in, u,
                     RecurrentStep(r_in, k_in, v_in, w_in, u, st, t), t + 1)

\* the result [out, kv_state] and, in states, the kv_state before the first
\* step and after each step
rwkv5_1_recurrent(r_in, k_in, v_in, w_in, u, kv_state) ==
  LET end == RecurrentLoop(r_in, k_in, v_in, w_in, u,
                           [out |-> <<>>, kv_state |-> kv_state, states |-> <<kv_state>>], 0)
  IN [out |-> CatList(end.out, Rank(r_in) - 1),
      kv_state |-> end.kv_state,
      states |-> end.states]

-----------------------------------------------------------------------------
(* rwkv_inner.  A call is [pc, heap, frame]: heap maps each buffer to its   *)
(* elements, frame maps each local name to what it is bound to; a tensor    *)
(* is bound as [buf, shape, sl]: the buffer it reads and writes, its shape, *)
(* and, for a slice view, the slice <<dimension, lo, hi>> it takes of it.   *)

Desc(b, s) == [buf |-> b, shape |-> s, sl |-> <<>>]

\* the slice view t[..., lo:hi, ...] of t along dimension d
SliceView(t, d, lo, hi) == [t EXCEPT !.sl = <<d, lo, hi>>]

\* the tensor a binding denotes
Val(h, t) ==
  IF t.sl = <<>> THEN [shape |-> t.shape, data |-> h[t.buf]]
  ELSE SliceDim([shape |-> t.shape, data |-> h[t.buf]], t.sl[1], t.sl[2], t.sl[3])

\* a new tensor in a buffer of its own
New(b, A) == Desc(b, A.shape)

\* t.view(s): a binding of the same buffer
ViewOf(t, s) == Desc(t.buf, ViewShape(Prod(t.shape), s))

\* an exception leaves rwkv_inner; line is where it is raised
Raise(c, line) ==
  [pc |-> "raised", heap |-> c.heap, frame |-> ("error" :> line) @@ c.frame]

\* the buffers the caller passes
CallerBufs == {"r", "k", "v", "w", "u", "kv_state"}

\* rwkv_inner(r, k, v, w, u, kv_state, chunk_len, precision_dtype) is entered
Call(args, chunk_len, precision_dtype) ==
  [pc |-> "enter",
   heap |-> [b \in CallerBufs |-> args[b].data],
   frame |-> [r |-> Desc("r", args.r.shape),
              k |-> Desc("k", args.k.shape),
              v |-> Desc("v", args.v.shape),
              w |-> Desc("w", args.w.shape),
              u |-> Desc("u", args.u.shape),
              kv_state |-> Desc("kv_state", args.kv_state.shape),
              chunk_len |-> chunk_len,
              precision_dtype |-> precision_dtype]]

\* lines 18-22
Enter(c) ==
  LET f == c.frame
      L == f.k.shape[3]
  IN [pc |-> IF L = 1 THEN "single" ELSE "chunk",
      heap |-> c.heap,
      frame |-> [B |-> f.k.shape[1], H |-> f.k.shape[2], L |-> L, K |-> f.k.shape[4],
                 V |-> f.v.shape[Len(f.v.shape)], T |-> f.chunk_len] @@ f]

\* lines 23-26, the L == 1 path
SingleStep(c) ==
  LET f == c.frame
      h == c.heap
      r == Val(h, f.r)
      k == Val(h, f.k)
      v == Val(h, f.v)
      w == Val(h, f.w)
      u == Val(h, f.u)
      s == Val(h, f.kv_state)
      kv == Matmul(k, v)
      ukv == Ew(NMul, u, kv)
      inner == Ew(NAdd, s, ukv)
      out == Matmul(r, inner)
      ws == Ew(DMul, w, s)
      kv_state == Ew(NAdd, ws, kv)
  IN IF ~CanMatmul(k.shape, v.shape) THEN Raise(c, 23)
     ELSE IF ~CanBroadcast(u.shape, kv.shape) THEN Raise(c, 24)
     ELSE IF ~CanBroadcast(s.shape, ukv.shape) THEN Raise(c, 24)
     ELSE IF ~CanMatmul(r.shape, inner.shape) THEN Raise(c, 24)
     ELSE IF ~CanBroadcast(w.shape, s.shape) THEN Raise(c, 25)
     ELSE IF ~CanBroadcast(ws.shape, kv.shape) THEN Raise(c, 25)
     ELSE [pc |-> "returned",
           heap |-> ("kv@23" :> kv.data) @@ ("out@24" :> out.data)
                    @@ ("kv_state@25" :> kv_state.data) @@ h,
           frame |-> [kv |-> New("kv@23", kv),
                      out |-> New("out@24", out),
                      kv_state |-> New("kv_state@25", kv_state),
                      ret |-> <<New("out@24", out), New("kv_state@25", kv_state)>>] @@ f]

\* line 38 and line 40: the floor of the decay, 0.005 = 2^-3 * 5^-2 and
\* 1e-10 = 2^-10 * 5^-10
precision_min_val(precision_dtype) ==
  IF precision_dtype = "float32" THEN <<1, 0 - 3, 0 - 2>> ELSE <<1, 0 - 10, 0 - 10>>

\* Tensor.clamp(min): max(x, min) of every element
Clamp(A, min) == Map(LAMBDA x : IF DLess(x, min) THEN min ELSE x, A)

\* what line 41 is not: w.clamp_(precision_min_val), the clamp written into
\* the buffer of w
ClampDecayInPlace(c) ==
  LET w == Clamp(Val(c.heap, c.frame.w), precision_min_val(c.frame.precision_dtype))
  IN [pc |-> "logdecay",
      heap |-> [c.heap EXCEPT ![c.frame.w.buf] = w.data],
      frame |-> c.frame]

\* line 41: w = w.clamp(precision_min_val), a new tensor bound to w
ClampDecay(c) ==
  LET w == Clamp(Val(c.heap, c.frame.w), precision_min_val(c.frame.precision_dtype))
  IN [pc |-> "logdecay",
      heap |-> ("w@41" :> w.data) @@ c.heap,
      frame |-> [w |-> New("w@41", w)] @@ c.frame]

\* lines 30-41: the chunk length, the number of chunks, the clamp
ChunkSetup(c) ==
  LET f == c.frame
      T == IF PyMod(f.L, f.T) # 0 THEN 1 ELSE f.T
      N == PyFloorDiv(f.L, T)
  IN IF f.T = 0 THEN Raise(c, 30)
     ELSE IF f.precision_dtype \notin {"float32", "float64"} THEN Raise(c, 36)
     ELSE ClampDecay([c EXCEPT !.frame = [T |-> T, N |-> N] @@ f])

\* lines 44-51: the logarithm of the decay and its cumulative sums in each chunk
LogDecay(c) ==
  LET f == c.frame
      h == c.heap
      w_log == Map(DLog, Val(h, f.w))
      shp == <<f.w.shape[1], f.H, f.N, f.T, f.K>>
      wc_log == View(w_log, shp)
      wc_log_cum == Cumsum(LAdd, wc_log, 4)
      shifted == Cat(ZerosLike(SliceDim(wc_log_cum, 4, 0, 1), LZero),
                     SliceDim(wc_log_cum, 4, 0, f.T - 1), 4)
  IN IF ~CanView(Len(w_log.data), shp) THEN Raise(c, 47)
     ELSE [pc |-> "decays",
           heap |-> ("w_log@44" :> w_log.data) @@ ("wc_log_cum@48" :> wc_log_cum.data)
                    @@ ("shifted_wc_log_cum@51" :> shifted.data) @@ h,
           frame |-> [w_log |-> New("w_log@44", w_log),
                      wc_log |-> ViewOf(New("w_log@44", w_log), shp),
                      wc_log_cum |-> New("wc_log_cum@48", wc_log_cum),
                      shifted_wc_log_cum |-> New("shifted_wc_log_cum@51", shifted)] @@ f]

\* lines 65-75: the decay of a whole chunk (ws), to the end of the chunk
\* (w_inter) and from the start of the chunk (w_intra)
DecayProfiles(c) ==
  LET f == c.frame
      h == c.heap
      wc_log == Val(h, f.wc_log)
      wc_log_cum == Val(h, f.wc_log_cum)
      ws65 == SumKeep(LAdd, wc_log, 4)
      w_inter68 == Ew(LSub, ws65, wc_log_cum)
      w_intra71 == Ew(LSub, wc_log_cum, wc_log)
      ws == Map(LExp, MT(ws65))
      w_inter == Map(LExp, w_inter68)
      w_intra == Map(LExp, w_intra71)
  IN [pc |-> "views",
      heap |-> ("ws@73" :> ws.data) @@ ("w_inter@74" :> w_inter.data)
               @@ ("w_intra@75" :> w_intra.data) @@ h,
      frame |-> [ws |-> New("ws@73", ws),
                 w_inter |-> New("w_inter@74", w_inter),
                 w_intra |-> New("w_intra@75", w_intra)] @@ f]

\* lines 78-81: the chunked views of r, k, v and u
ChunkViews(c) ==
  LET f == c.frame
  IN IF ~CanView(Prod(f.r.shape), <<f.B, f.H, f.N, f.T, f.K>>) THEN Raise(c, 78)
     ELSE IF ~CanView(Prod(f.k.shape), <<f.B, f.H, f.N, f.T, f.K>>) THEN Raise(c, 79)
     ELSE IF ~CanView(Prod(f.v.shape), <<f.B, f.H, f.N, f.T, f.V>>) THEN Raise(c, 80)
     ELSE [pc |-> "subchunks",
           heap |-> c.heap,
           frame |-> [r |-> ViewOf(f.r, <<f.B, f.H, f.N, f.T, f.K>>),
                      k |-> ViewOf(f.k, <<f.B, f.H, f.N, f.T, f.K>>),
                      v |-> ViewOf(f.v, <<f.B, f.H, f.N, f.T, f.V>>),
                      u |-> Desc(f.u.buf, Unsqueeze(Val(c.heap, f.u), 3).shape)] @@ f]

\* line 87: the index, in each half chunk, of the position the decay is re-based at
OffsetIndex(T) == T \div 4

\* lines 85-95: the views in two half chunks, the decay re-based in each half
SubchunkViews(c) ==
  LET f == c.frame
      h == c.heap
      half == f.T \div 2
      wshp == <<f.w.shape[1], f.H, f.N, 2, half, f.K>>
      wc_log_cum == ViewOf(f.wc_log_cum, wshp)
      shifted == ViewOf(f.shifted_wc_log_cum, wshp)
      wc_log_offset == SliceView(shifted, 5, OffsetIndex(f.T), OffsetIndex(f.T) + 1)
      rr_decay == Map(LExp, Ew(LSub, Val(h, shifted), Val(h, wc_log_offset)))
      kk_inv_decay == Map(LExp, Ew(LSub, Val(h, wc_log_offset), Val(h, wc_log_cum)))
  IN IF ~CanView(Prod(f.wc_log_cum.shape), wshp) THEN Raise(c, 85)
     ELSE IF ~CanView(Prod(f.shifted_wc_log_cum.shape), wshp) THEN Raise(c, 86)
     ELSE IF ~CanView(Prod(f.u.shape), <<1, f.H, 1, 1, 1, f.K>>) THEN Raise(c, 90)
     ELSE IF ~CanView(Prod(f.r.shape), <<f.B, f.H, f.N, 2, half, f.K>>) THEN Raise(c, 93)
     ELSE IF ~CanView(Prod(f.k.shape), <<f.B, f.H, f.N, 2, half, f.K>>) THEN Raise(c, 94)
     ELSE IF ~CanView(Prod(f.v.shape), <<f.B, f.H, f.N, 2, half, f.V>>) THEN Raise(c, 95)
     ELSE [pc |-> "intra",
           heap |-> ("rr_decay@91" :> rr_decay.data)
                    @@ ("kk_inv_decay@92" :> kk_inv_decay.data) @@ h,
           frame |-> [wc_log_cum |-> wc_log_cum,
                      shifted_wc_log_cum |-> shifted,
                      wc_log_offset |-> wc_log_offset,
                      uu |-> ViewOf(f.u, <<1, f.H, 1, 1, 1, f.K>>),
                      rr_decay |-> New("rr_decay@91", rr_decay),
                      kk_inv_decay |-> New("kk_inv_decay@92", kk_inv_decay),
                      rr |-> ViewOf(f.r, <<f.B, f.H, f.N, 2, half, f.K>>),
                      kk |-> ViewOf(f.k, <<f.B, f.H, f.N, 2, half, f.K>>),
                      vv |-> ViewOf(f.v, <<f.B, f.H, f.N, 2, half, f.V>>)] @@ f]

\* line 96: the attention of each half chunk on itself, strictly below the diagonal
IntraAttention(rr, rr_decay, kk, kk_inv_decay) ==
  Tril(Matmul(Ew(NMul, rr, rr_decay), MT(Ew(NMul, kk, kk_inv_decay))), 0 - 1)

\* line 98: the diagonal of the attention, weighted by u and not decayed
BonusDiagonal(rr, uu, kk) == DiagEmbed(DotLast(rr, Ew(NMul, uu, kk)))

\* lines 96-99: the output of each half chunk from its own keys and values
IntraSubchunk(c) ==
  LET f == c.frame
      h == c.heap
      a96 == IntraAttention(Val(h, f.rr), Val(h, f.rr_decay), Val(h, f.kk), Val(h, f.kk_inv_decay))
      a == Ew(NAdd, a96, BonusDiagonal(Val(h, f.rr), Val(h, f.uu), Val(h, f.kk)))
      out == Matmul(a, Val(h, f.vv))
  IN [pc |-> "inter",
      heap |-> ("a@98" :> a.data) @@ ("out@99" :> out.data) @@ h,
      frame |-> [a |-> New("a@98", a), out |-> New("out@99", out)] @@ f]

\* line 108, right of the assignment: what the second half of each chunk
\* takes from the keys and values of the first half
InterAttention(rr, rr_decay, kk, kk_inv_decay) ==
  Matmul(Ew(NMul, rr, rr_decay), MT(Ew(NMul, kk, kk_inv_decay)))

\* line 105, commented out in the source: the keys of the first half decayed
\* to the offset of the first half
InterKeyDecayOwnOffset(wc_log_offset, wc_log_cum) ==
  Map(LExp, Ew(LSub, SliceDim(wc_log_offset, 4, 0, 1), SliceDim(wc_log_cum, 4, 0, 1)))

\* line 106: the keys of the first half, decayed to the offset of the second half
InterKeyDecay(wc_log_offset, wc_log_cum) ==
  Map(LExp, Ew(LSub, SliceDim(wc_log_offset, 4, 1, 2), SliceDim(wc_log_cum, 4, 0, 1)))

\* lines 102-110: the correction is added in place to the second half of out
InterSubchunk(c) ==
  LET f == c.frame
      h == c.heap
      rr == SliceView(f.rr, 4, 1, 2)
      rr_decay == SliceView(f.rr_decay, 4, 1, 2)
      kk == SliceView(f.kk, 4, 0, 1)
      kk_inv_decay == InterKeyDecay(Val(h, f.wc_log_offset), Val(h, f.wc_log_cum))
      vv == SliceView(f.vv, 4, 0, 1)
      add == Ew(NAdd, SliceDim(Val(h, f.out), 4, 1, 2),
                Matmul(InterAttention(Val(h, rr), Val(h, rr_decay), Val(h, kk), kk_inv_decay),
                       Val(h, vv)))
  IN [pc |-> "wkv",
      heap |-> ("kk_inv_decay@106" :> kk_inv_decay.data)
               @@ [h EXCEPT ![f.out.buf] = SliceAssign(Val(h, f.out), 4, 1, 2, add).data],
      frame |-> [rr |-> rr, rr_decay |-> rr_decay, kk |-> kk, vv |-> vv,
                 kk_inv_decay |-> New("kk_inv_decay@106", kk_inv_decay),
                 out |-> ViewOf(f.out, <<f.B, f.H, f.N, f.T, f.V>>)] @@ f]

\* lines 113-117: what each chunk adds to the state, and the empty list of states
PrecalcWkv(c) ==
  LET f == c.frame
      h == c.heap
      wkv == Matmul(MT(Ew(NMul, Val(h, f.k), Val(h, f.w_inter))), Val(h, f.v))
  IN [pc |-> "scan",
      heap |-> ("wkv@113" :> wkv.data) @@ h,
      frame |-> [wkv |-> New("wkv@113", wkv), states |-> <<>>, i |-> 0] @@ f]

\* the buffer of the kv_state made by iteration i
StateBuf(i) == "kv_state@120." \o ToString(i)

\* what line 120 is not: the state carried over a chunk without its decay
ChunkUpdateUndecayed(kv_state, ws_i, wkv_i) == Ew(NAdd, kv_state, wkv_i)

\* line 120: kv_state = kv_state * ws[i] + wkv[i]
ChunkUpdate(kv_state, ws_i, wkv_i) == Ew(NAdd, Ew(NMul, kv_state, ws_i), wkv_i)

\* lines 118-120: one iteration of the scan over the chunks
ScanStep(c) ==
  LET f == c.frame
      h == c.heap
      s == Val(h, f.kv_state)
      ws_i == Select(Val(h, f.ws), 3, f.i)
      wkv_i == Select(Val(h, f.wkv), 3, f.i)
      kv_state == ChunkUpdate(s, ws_i, wkv_i)
  IN IF ~CanBroadcast(s.shape, ws_i.shape) THEN Raise(c, 120)
     ELSE IF ~CanBroadcast(BShape(s.shape, ws_i.shape), wkv_i.shape) THEN Raise(c, 120)
     ELSE [pc |-> "scan",
           heap |-> (StateBuf(f.i) :> kv_state.data) @@ h,
           frame |-> [states |-> Append(f.states, f.kv_state),
                      kv_state |-> New(StateBuf(f.i), kv_state),
                      i |-> f.i + 1] @@ f]

\* lines 124-129: every chunk's entering state applied to its queries
ApplyStates(c) ==
  LET f == c.frame
      h == c.heap
      list == [j \in 1..Len(f.states) |-> Val(h, f.states[j])]
      states == Stack(list, 3)
      rw == Ew(NMul, Val(h, f.r), Val(h, f.w_intra))
      add == Matmul(rw, states)
      out == Ew(NAdd, Val(h, f.out), add)
  IN IF \E j \in 1..Len(list) : list[j].shape # list[1].shape THEN Raise(c, 124)
     ELSE IF ~CanMatmul(rw.shape, states.shape) THEN Raise(c, 127)
     ELSE IF ~CanBroadcast(f.out.shape, add.shape) THEN Raise(c, 127)
     ELSE IF ~CanView(Len(out.data), <<f.B, f.H, f.L, f.V>>) THEN Raise(c, 128)
     ELSE [pc |-> "returned",
           heap |-> ("states@124" :> states.data) @@ ("out@127" :> out.data) @@ h,
           frame |-> [states |-> New("states@124", states),
                      out |-> ViewOf(New("out@127", out), <<f.B, f.H, f.L, f.V>>),
                      ret |-> <<ViewOf(New("out@127", out), <<f.B, f.H, f.L, f.V>>),
                                f.kv_state>>] @@ f]

\* the statement rwkv_inner executes next
Step(c) ==
  CASE c.pc = "enter" -> Enter(c)
    [] c.pc = "single" -> SingleStep(c)
    [] c.pc = "chunk" -> ChunkSetup(c)
    [] c.pc = "logdecay" -> LogDecay(c)
    [] c.pc = "decays" -> DecayProfiles(c)
    [] c.pc = "views" -> ChunkViews(c)
    [] c.pc = "subchunks" -> SubchunkViews(c)
    [] c.pc = "intra" -> IntraSubchunk(c)
    [] c.pc = "inter" -> InterSubchunk(c)
    [] c.pc = "wkv" -> PrecalcWkv(c)
    [] c.pc = "scan" -> IF c.frame.i < c.frame.N THEN ScanStep(c) ELSE ApplyStates(c)

RECURSIVE Run(_)
\* a call run until it returns or raises
Run(c) == IF c.pc \in {"returned", "raised"} THEN c ELSE Run(Step(c))

\* rwkv_inner as a function: [raised, line] or [raised, out, kv_state]
rwkv_inner(args, chunk_len, precision_dtype) ==
  LET c == Run(Call(args, chunk_len, precision_dtype))
  IN IF c.pc = "raised" THEN [raised |-> TRUE, line |-> c.frame.error]
     ELSE [raised |-> FALSE,
           out |-> Val(c.heap, c.frame.ret[1]),
           kv_state |-> Val(c.heap, c.frame.ret[2])]

-----------------------------------------------------------------------------
(* The inputs of a run *)

MaxL == 4

MaxK == 2

MaxV == 2

Heads == {1, 2}

\* chunk_len defaults to 32
DefaultChunkLen == 32

ChunkLens == 1..MaxL \cup {DefaultChunkLen}

BadChunkLens == {0, 0 - 1, 0 - 2}

Dtypes == {"float32", "float64"}

\* decays: all of them at or above 0.005; some below 0.005 and above 1e-10;
\* some positive and below 1e-10; some zero or negative
DecayValues ==
  << << <<1, 0 - 1, 0>>, <<1, 0, 0 - 1>>, <<1, 0, 0>>, <<1, 0 - 1, 0 - 1>> >>,
     << <<1, 0 - 4, 0 - 2>>, <<1, 0 - 1, 0>>, <<1, 0 - 5, 0 - 3>>, <<1, 0, 0 - 1>> >>,
     << <<1, 0 - 11, 0 - 11>>, <<1, 0, 0 - 1>>, <<1, 0 - 1, 0>> >>,
     << <<0, 0, 0>>, <<0 - 1, 0, 0 - 1>>, <<1, 0 - 1, 0>> >> >>

SmallInt(salt, f) == ((3 * f * f + salt * f + 2 * salt + 1) % 7) - 3

\* a tensor of small integers
GenNum(s, salt) == Tensor(s, LAMBDA f : NInt(SmallInt(salt, f)))

\* a tensor of decays
GenDecay(s, profile) ==
  Tensor(s, LAMBDA f : DecayValues[profile][(f % Len(DecayValues[profile])) + 1])

\* the arguments of a call: sizes d = [H, L, K, V, Kr, Vs, Hu, Hw, Hs]
GenArgs(d, profile) ==
  [r |-> GenNum(<<1, d.H, d.L, d.Kr>>, 1),
   k |-> GenNum(<<1, d.H, d.L, d.K>>, 2),
   v |-> GenNum(<<1, d.H, d.L, d.V>>, 3),
   w |-> GenDecay(<<1, d.Hw, d.L, d.K>>, profile),
   u |-> GenNum(<<1, d.Hu, 1, d.K>>, 4),
   kv_state |-> GenNum(<<1, d.Hs, d.K, d.Vs>>, 5)]

\* sizes that meet the contract of rwkv_inner
Sizes(H, L, K, V) ==
  [H |-> H, L |-> L, K |-> K, V |-> V, Kr |-> K, Vs |-> V, Hu |-> H, Hw |-> H, Hs |-> H]

AllSizes == {Sizes(H, L, K, V) : H \in Heads, L \in 1..MaxL, K \in 1..MaxK, V \in 1..MaxV}

\* for a size n, the sizes that differ from it: 1 (which broadcasts) and n + 1
Other(n) == {1, n + 1} \ {n}

\* a run: the arguments, the configuration, and the place where it breaks the
\* contract of rwkv_inner ("none" when it does not)
Input(d, profile, chunk_len, precision_dtype, breach) ==
  [d |-> d, args |-> GenArgs(d, profile), chunk_len |-> chunk_len,
   precision_dtype |-> precision_dtype, profile |-> profile, breach |-> breach]

\* the runs within the contract
GoodInputs ==
  {Input(d, profile, T, dt, "none") :
     d \in AllSizes, T \in ChunkLens, dt \in Dtypes, profile \in 1..Len(DecayValues)}

\* the runs that break the contract in one place
BadInputs ==
  UNION {{Input([d EXCEPT !.Kr = x], 1, 2, "float32", "r_key") : x \in Other(d.K)} : d \in AllSizes}
  \cup UNION {{Input([d EXCEPT !.Vs = x], 1, 2, "float32", "kv_value") : x \in Other(d.V)} : d \in AllSizes}
  \cup UNION {{Input([d EXCEPT !.Hu = x], 1, 2, "float32", "u_head") : x \in Other(d.H)} : d \in AllSizes}
  \cup UNION {{Input([d EXCEPT !.Hw = x], 1, 2, "float32", "w_head") : x \in Other(d.H)} : d \in AllSizes}
  \cup UNION {{Input([d EXCEPT !.Hs = x], 1, 2, "float32", "kv_head") : x \in Other(d.H)} : d \in AllSizes}
  \cup {Input(d, 1, T, "float32", "chunk_len") : d \in AllSizes, T \in BadChunkLens}
  \cup {Input(d, 1, 2, "float16", "dtype") : d \in AllSizes}

-----------------------------------------------------------------------------
(* The state machine: sanity_check runs the recurrence and then rwkv_inner *)
(* on the same input; rwkv_inner runs statement by statement.              *)

VARIABLES inp, ref, pc, heap, frame

vars == <<inp, ref, pc, heap, frame>>

NoRef == [run |-> FALSE]

Init ==
  /\ inp \in GoodInputs \cup BadInputs
  /\ ref = NoRef
  /\ pc = IF inp.breach = "none" THEN "reference" ELSE "call"
  /\ heap = <<>>
  /\ frame = <<>>

\* line 54 of rwkv5_1.py: the recurrence on the input
Reference ==
  /\ pc = "reference"
  /\ ref' = [run |-> TRUE] @@
            rwkv5_1_recurrent(inp.args.r, inp.args.k, inp.args.v, inp.args.w,
                              inp.args.u, inp.args.kv_state)
  /\ pc' = "call"
  /\ UNCHANGED <<inp, heap, frame>>

\* line 58 of rwkv5_1.py: rwkv_inner is called on the input
CallKernel ==
  /\ pc = "call"
  /\ LET c == Call(inp.args, inp.chunk_len, inp.precision_dtype)
     IN pc' = c.pc /\ heap' = c.heap /\ frame' = c.frame
  /\ UNCHANGED <<inp, ref>>

\* the call moves from at by the statement S
Do(at, S(_)) ==
  /\ pc = at
  /\ LET c == S([pc |-> pc, heap |-> heap, frame |-> frame])
     IN pc' = c.pc /\ heap' = c.heap /\ frame' = c.frame
  /\ UNCHANGED <<inp, ref>>

DoEnter == Do("enter", Enter)

DoSingleStep == Do("single", SingleStep)

DoChunkSetup == Do("chunk", ChunkSetup)

DoLogDecay == Do("logdecay", LogDecay)

DoDecayProfiles == Do("decays", DecayProfiles)

DoChunkViews == Do("views", ChunkViews)

DoSubchunkViews == Do("subchunks", SubchunkViews)

DoIntraSubchunk == Do("intra", IntraSubchunk)

DoInterSubchunk == Do("inter", InterSubchunk)

DoPrecalcWkv == Do("wkv", PrecalcWkv)

DoScanStep == pc = "scan" /\ frame.i < frame.N /\ Do("scan", ScanStep)

DoApplyStates == pc = "scan" /\ frame.i >= frame.N /\ Do("scan", ApplyStates)

Next ==
  \/ Reference
  \/ CallKernel
  \/ DoEnter
  \/ DoSingleStep
  \/ DoChunkSetup
  \/ DoLogDecay
  \/ DoDecayProfiles
  \/ DoChunkViews
  \/ DoSubchunkViews
  \/ DoIntraSubchunk
  \/ DoInterSubchunk
  \/ DoPrecalcWkv
  \/ DoScanStep
  \/ DoApplyStates

Spec == Init /\ [][Next]_vars

\* the call is over
Returned == pc = "returned"

Raised == pc = "raised"

\* what the call returned
Out == Val(heap, frame.ret[1])

KvState == Val(heap, frame.ret[2])

-----------------------------------------------------------------------------
(* RWKV5_1_AttentionSubLayer.forward, from the projections to the call of   *)
(* rwkv_inner.  An element of k, v, time_decay or time_faaaa is modelled by *)
(* the key/value head it is computed for; r is not followed.                *)

MaxHeads == 4

MaxB == 2

MaxT == 2

\* the layers __init__ accepts (lines 88-95): dim_rk = K * H and dim_v = V * H
\* are multiples of n_head and of n_kv_head
Layers ==
  {c \in [H : 1..MaxHeads, KVH : 1..MaxHeads, B : 1..MaxB, T : 1..MaxT,
          K : 1..MaxK, V : 1..MaxV] :
     /\ c.KVH <= c.H
     /\ (c.K * c.H) % c.KVH = 0
     /\ (c.V * c.H) % c.KVH = 0}

\* Tensor.transpose(1, 2) of a tensor of four dimensions
Transpose12(A) ==
  LET os == <<A.shape[1], A.shape[3], A.shape[2], A.shape[4]>>
  IN Tensor(os,
       LAMBDA f : A.data[((Coord(f, os, 1) * A.shape[2] + Coord(f, os, 3)) * A.shape[3]
                          + Coord(f, os, 2)) * A.shape[4] + Coord(f, os, 4) + 1])

\* Tensor.expand(s).contiguous(): dimensions are matched from the last one,
\* a dimension of size 1 is repeated
Expand(A, s) == Tensor(s, LAMBDA f : A.data[BIdx(f, s, A.shape) + 1])

\* lines 164-165 and 172-173: the output of a projection of heads * size
\* channels, seen as (B, heads, T, size); channel ch belongs to head ch \div size
Projected(B, T, heads, size) ==
  Transpose12(View(Tensor(<<B, T, heads * size>>, LAMBDA f : (f % (heads * size)) \div size),
                   <<B, T, heads, size>>))

\* line 176 and line 177: x[:,:,None,:,:].expand(B, KVH, reps, T, size)
\* .contiguous(), before the view
RepeatHeads(x, B, KVH, reps, T, size) == Expand(Unsqueeze(x, 3), <<B, KVH, reps, T, size>>)

\* line 178 and line 179: p.expand(reps, KVH).contiguous(), before the view
RepeatParameter(p, reps, KVH) == Expand(p, <<reps, KVH>>)

\* lines 163-165 and 172-173
Project(c) ==
  [pc |-> "expand",
   heap |-> c.heap,
   frame |-> [k |-> Projected(inp.B, inp.T, inp.KVH, inp.K),
              v |-> Projected(inp.B, inp.T, inp.KVH, inp.V),
              time_decay |-> Tensor(<<inp.KVH>>, LAMBDA f : f),
              time_faaaa |-> Tensor(<<inp.KVH>>, LAMBDA f : f)]]

\* lines 174-179
ExpandHeads(c) ==
  LET f == c.frame
      reps == inp.H \div inp.KVH
      k == RepeatHeads(f.k, inp.B, inp.KVH, reps, inp.T, inp.K)
      v == RepeatHeads(f.v, inp.B, inp.KVH, reps, inp.T, inp.V)
      time_decay == RepeatParameter(f.time_decay, reps, inp.KVH)
      time_faaaa == RepeatParameter(f.time_faaaa, reps, inp.KVH)
  IN IF ~(inp.KVH < inp.H) THEN [c EXCEPT !.pc = "decay"]
     ELSE IF ~CanView(Len(k.data), <<inp.B, inp.H, inp.T, inp.K>>) THEN Raise(c, 176)
     ELSE [pc |-> "decay",
           heap |-> c.heap,
           frame |-> [k |-> View(k, <<inp.B, inp.H, inp.T, inp.K>>),
                      v |-> View(v, <<inp.B, inp.H, inp.T, inp.V>>),
                      time_decay |-> View(time_decay, <<inp.H>>),
                      time_faaaa |-> View(time_faaaa, <<inp.H>>)] @@ f]

\* lines 188-189: w and u, one row per head
HeadParameters(c) ==
  LET f == c.frame
      w == Expand(Unsqueeze(Unsqueeze(f.time_decay, 2), 3), <<1, inp.H, inp.T, inp.K>>)
      u == Expand(Unsqueeze(Unsqueeze(Unsqueeze(f.time_faaaa, 1), 3), 4), <<1, inp.H, 1, inp.K>>)
  IN [pc |-> "inner",
      heap |-> c.heap,
      frame |-> [w |-> w, u |-> u] @@ f]

InitForward ==
  /\ inp \in Layers
  /\ ref = NoRef
  /\ pc = "project"
  /\ heap = <<>>
  /\ frame = <<>>

DoProject == Do("project", Project)

DoExpandHeads == Do("expand", ExpandHeads)

DoHeadParameters == Do("decay", HeadParameters)

NextForward ==
  \/ DoProject
  \/ DoExpandHeads
  \/ DoHeadParameters

SpecForward == InitForward /\ [][NextForward]_vars

-----------------------------------------------------------------------------
(* What the runs are measured against *)

\* the call is over, one way or the other
Done == pc \in {"returned", "raised"}

\* the run is within the contract of rwkv_inner
Valid == inp.breach = "none"

\* the configured chunk length divides the sequence length
Divides == inp.chunk_len >= 1 /\ inp.d.L % inp.chunk_len = 0

\* every decay of the input is positive
PositiveDecay == \A i \in DOMAIN inp.args.w.data : DLess(<<0, 0, 0>>, inp.args.w.data[i])

\* the floor of the decay as documented: 0.005 in float32, 1e-10 in float64
Floor == IF inp.precision_dtype = "float32" THEN <<1, 0 - 3, 0 - 2>> ELSE <<1, 0 - 10, 0 - 10>>

\* some decay of the input is below the floor
BelowFloor == \E i \in DOMAIN inp.args.w.data : DLess(inp.args.w.data[i], Floor)

\* the input with every decay raised to the floor
Floored == [inp.args EXCEPT !.w = Clamp(inp.args.w, Floor)]

\* the call returned what the recurrence of line 54 returned
EqualsReference ==
  /\ Returned
  /\ Out = ref.out
  /\ KvState = ref.kv_state

-----------------------------------------------------------------------------
(* The claims *)

\* C1: on a run within the contract whose decays are all positive and whose
\* sequence is longer than one step, for every chunk length T >= 1 that
\* divides L (T = 1 and odd T among them) the call returns the out and the
\* kv_state of the recurrence
C1_ChunkedEqualsRecurrence ==
  (Done /\ Valid /\ inp.d.L > 1 /\ Divides /\ PositiveDecay) => EqualsReference

\* C2: on a run within the contract of one step (L = 1) with no decay below
\* the floor, whatever the key and value dimensions, the call returns the out
\* and the kv_state of one step of the recurrence
C2_SingleStepEqualsRecurrence ==
  (Done /\ Valid /\ ~BelowFloor /\ inp.d.L = 1) => EqualsReference

\* C3: on a run within the contract with no decay below the floor, of more
\* than one step, whose chunk length T >= 1 does not divide L, the call goes
\* on with T = 1 and N = L, runs to its end and returns the out and the
\* kv_state of the recurrence
C3_FallbackCompletes ==
  (Done /\ Valid /\ ~BelowFloor /\ inp.d.L > 1 /\ inp.chunk_len >= 1 /\ ~Divides)
    => (frame.T = 1 /\ frame.N = inp.d.L /\ EqualsReference)

\* the breaches of the contract named: the key dimension of r, the
\* value dimension and the head count of kv_state, the head count of u and
\* of w, a chunk length that is not positive
NamedBreaches == {"r_key", "kv_value", "kv_head", "u_head", "w_head", "chunk_len"}

\* C6: a run that breaks the contract in one of the named places is rejected,
\* whatever L: the call raises, and raises before any computation, that is
\* before it has made any buffer of its own
C6_BreachRejectedFirst ==
  (Done /\ inp.breach \in NamedBreaches) => (Raised /\ DOMAIN heap = CallerBufs)

\* positions lo..hi-1 of the input, entered with the state s
Segment(lo, hi, s) ==
  [r |-> SliceDim(inp.args.r, 3, lo, hi),
   k |-> SliceDim(inp.args.k, 3, lo, hi),
   v |-> SliceDim(inp.args.v, 3, lo, hi),
   w |-> SliceDim(inp.args.w, 3, lo, hi),
   u |-> inp.args.u,
   kv_state |-> s]

\* the sequence cut after L1 positions: the first call, and the second call
\* entered with the kv_state the first one returned
StreamedAt(L1) ==
  LET first == rwkv_inner(Segment(0, L1, inp.args.kv_state), inp.chunk_len, inp.precision_dtype)
      second == rwkv_inner(Segment(L1, inp.d.L, first.kv_state), inp.chunk_len,
                           inp.precision_dtype)
  IN /\ ~first.raised
     /\ ~second.raised
     /\ Cat(first.out, second.out, 3) = Out
     /\ second.kv_state = KvState

\* C4: when the call on a whole sequence within the contract, with no decay
\* below the floor, has returned, then for every cut 1 <= L1 < L, with the
\* same chunk length, the calls on the two segments return, their outs
\* concatenated are the out of the whole call and the last kv_state is its
\* kv_state
C4_Streaming ==
  (Returned /\ Valid /\ ~BelowFloor /\ inp.d.L > 1) => \A L1 \in 1..(inp.d.L - 1) : StreamedAt(L1)

\* the same call on the input with every decay raised to the floor
FlooredCall == rwkv_inner(Floored, inp.chunk_len, inp.precision_dtype)

\* the call did what the same call does on the decays raised to the floor
AsFloored ==
  IF Raised THEN FlooredCall.raised
  ELSE ~FlooredCall.raised /\ FlooredCall.out = Out /\ FlooredCall.kv_state = KvState

\* C5: in float32 and in float64, for every L >= 1, the call
\* returns or raises as the same call does on the decays raised to the floor,
\* and what it returns is what that call returns
C5_ClampedAlways ==
  (Done /\ inp.precision_dtype \in Dtypes) => AsFloored

\* C7: from the entry of the call on, r, k, v, w, u and the kv_state passed
\* in hold what they held before the call, and what the call returns is in
\* buffers the call made
C7_CallerBuffersUntouched ==
  (pc \notin {"reference", "call"}) =>
     /\ \A b \in CallerBufs : heap[b] = inp.args[b].data
     /\ Returned => /\ frame.ret[1].buf \notin CallerBufs
                    /\ frame.ret[2].buf \notin CallerBufs

\* a call of more than one step returned after the clamp has raised a decay,
\* the second half of out has been added to and the state has been updated
C7_Witness ==
  Returned /\ inp.d.L > 1 /\ BelowFloor /\ frame.i >= 1 /\ "out@99" \in DOMAIN heap

\* the states of the recurrence on k, v, the decay w and the state entered,
\* with r and u put to zero: state n + 1 of the list is the one after n steps
\* (a set of one list)
StatesOn(w) ==
  {rwkv5_1_recurrent(zr, inp.args.k, inp.args.v, ww, zu, inp.args.kv_state).states :
     zr \in {ZerosLike(inp.args.r, NZero)}, zu \in {ZerosLike(inp.args.u, NZero)}, ww \in {w}}

\* the scan over the chunks, measured against the list of states st
ScanFollows(st) ==
  /\ pc = "scan" =>
       /\ frame.i <= frame.N
       /\ frame.N * frame.T = inp.d.L
       /\ Len(frame.states) = frame.i
       /\ \A j \in 1..frame.i : Val(heap, frame.states[j]) = st[(j - 1) * frame.T + 1]
       /\ Val(heap, frame.kv_state) = st[frame.i * frame.T + 1]
  /\ Returned =>
       /\ frame.i = frame.N
       /\ KvState = st[inp.d.L + 1]

\* the run is within the contract and at the head of the scan loop, or, of
\* more than one step, past its end
InScan == Valid /\ (pc = "scan" \/ (Returned /\ inp.d.L > 1))

At4(A, h, p, c) == A.data[(h * A.shape[3] + p) * A.shape[4] + c + 1]

RECURSIVE DecayBetween(_, _, _, _, _)
\* the product of the decays w of head h and channel c at positions lo..hi
DecayBetween(w, h, c, lo, hi) ==
  IF lo > hi THEN NInt(1)
  ELSE NMul(DNum(At4(w, h, lo, c)), DecayBetween(w, h, c, lo + 1, hi))

\* the weight of position s in the output at position t, summed over the key
\* channels: r[t] k[s] and the decays strictly between s and t below the
\* diagonal, r[t] u k[t] on it, nothing above it
Weight(w, h, t, s) ==
  IF s > t THEN NZero
  ELSE NSumN(inp.d.K,
         LAMBDA c :
           IF s = t
           THEN NMul(At4(inp.args.r, h, t, c - 1),
                     NMul(At4(inp.args.u, h, 0, c - 1), At4(inp.args.k, h, t, c - 1)))
           ELSE NMul(At4(inp.args.r, h, t, c - 1),
                     NMul(At4(inp.args.k, h, s, c - 1), DecayBetween(w, h, c - 1, s + 1, t - 1))))

\* what position p takes from the positions of its own chunk, in value channel x
IntraOut(w, h, p, x) ==
  LET first == (p \div frame.T) * frame.T
  IN NSumN(p - first + 1,
       LAMBDA j : NMul(Weight(w, h, p, first + j - 1), At4(inp.args.v, h, first + j - 1, x)))

\* after line 98, the attention of every half chunk on itself is Weight
HalfBlocksExact(w) ==
  LET half == frame.T \div 2
  IN \A h \in 0..(frame.H - 1), n \in 0..(frame.N - 1), z \in 0..1,
        i \in 0..(half - 1), j \in 0..(half - 1) :
        heap[frame.a.buf][(((h * frame.N + n) * 2 + z) * half + i) * half + j + 1]
          = Weight(w, h, n * frame.T + z * half + i, n * frame.T + z * half + j)

\* at line 108, the attention of the second half of every chunk on the first
\* half is Weight
CrossBlockExact(w) ==
  LET half == frame.T \div 2
      cross == InterAttention(Val(heap, frame.rr), Val(heap, frame.rr_decay),
                              Val(heap, frame.kk), Val(heap, frame.kk_inv_decay))
  IN \A h \in 0..(frame.H - 1), n \in 0..(frame.N - 1),
        i \in 0..(half - 1), j \in 0..(half - 1) :
        cross.data[((h * frame.N + n) * half + i) * half + j + 1]
          = Weight(w, h, n * frame.T + half + i, n * frame.T + j)

\* after line 108, out holds for every position what it takes from its chunk
IntraOutExact(w) ==
  \A h \in 0..(frame.H - 1), p \in 0..(frame.L - 1), x \in 0..(frame.V - 1) :
     heap[frame.out.buf][(h * frame.L + p) * frame.V + x + 1] = IntraOut(w, h, p, x)

SourcesOf(A, h) == {A.data[f + 1] : f \in {g \in 0..(Len(A.data) - 1) : Coord(g, A.shape, 2) = h}}

\* C10: when n_kv_head < n_head, for every head h the k, the v, the w (from
\* time_decay) and the u (from time_faaaa) passed to rwkv_inner are those of
\* one and the same key/value head
C10_HeadsConsistent ==
  (pc = "inner" /\ inp.KVH < inp.H) =>
     \A h \in 0..(inp.H - 1) :
        \E j \in 0..(inp.KVH - 1) :
           /\ SourcesOf(frame.k, h) = {j}
           /\ SourcesOf(frame.v, h) = {j}
           /\ SourcesOf(frame.w, h) = {j}
           /\ SourcesOf(frame.u, h) = {j}

=============================================================================
